---- MODULE Spec2Model ----
(***************************************************************************)
(* Model of src/auth-spike.js (the build of lines 1-1418): the declarative *)
(* page-protection dispatcher, the course entitlement gate, the idempotent *)
(* profile bootstrap, the lesson progress recorder, the directory's save   *)
(* handler, and the page-load initializers that run beside them.           *)
(* The data store is modelled from the SQL schema: primary key and         *)
(* row-level-security policies of public.profiles, public.entitlements     *)
(* and public.lesson_progress.                                             *)
(*                                                                         *)
(* Every `await` of the script is one action: the awaited remote call      *)
(* takes effect atomically and the code then runs to its next `await`.     *)
(***************************************************************************)
EXTENDS Naturals, Sequences, FiniteSets

\* ------------------------------------------------------------------ bounds

\* Remote calls that may fail (error value or rejected promise) in one run.
MaxFaults == 1
\* Changes of the browser's session (sign-in / sign-out in another tab).
MaxSessionChanges == 1
\* Concurrent ensureProfileExists activations of SpecEnsure (tabs).
MaxCalls == 2
\* Clicks on #markCompleteBtn in SpecProgress, each in a tab of its own.
MaxMarks == 2
\* Clicks on a card's save button of the /people page in one page load.
MaxSaves == 1
\* Submissions of each form (clicks of each button) in one page load.
MaxSubmits == 1
\* Lines the onAuthStateChange listener may have logged when a token
\* refresh or a user update calls it once more.
MaxAuthEvents == 2

\* ------------------------------------------------------------- value sets

Users == {"U1", "U2"}
NoSession == "anon"
Sessions == Users \cup {NoSession}
Email(u) == IF u = "U1" THEN "u1@example.com" ELSE "u2@example.com"

NoRow == [id |-> "null"]
Unset == [id |-> "unset"]

\* Caller of the page's own initializeProfileForm; tabs are 1..MaxCalls.
FormCall == 0
Callers == 0..MaxCalls

\* Outcomes of an awaited remote call: it resolves with data, resolves with
\* an error value, or the promise rejects.
Ok == "ok"
Err == "error"
Throw == "throw"
Outcomes == {Ok, Err, Throw}

VARIABLES
  config,         \* CONFIG: window.SB_CONFIG or the script's defaults
  page,           \* what the page declares (DOM and URL), fixed per page load
  session,        \* the identity provider's current session (shared by tabs)
  profiles,       \* table public.profiles: a sequence of rows
  entitlements,   \* table public.entitlements: set of <<user_id, course_slug>>
  progress,       \* table public.lesson_progress: set of rows
  calls,          \* activations of ensureProfileExists, by caller
  marks,          \* activations of markLessonComplete, by tab
  disp,           \* the task started by initializePageProtection()
  lesson,         \* the task started by initLessonProgressUI()
  dir,            \* the task started by initProfilesDirectory()
  nav,            \* assignments to window.location.href, in order
  issued,         \* store requests issued so far: [by, op]
  faults,         \* remote calls that failed so far
  sessionChanges, \* session changes so far
  forms,          \* activations of the form and button handlers, by form
  authEvents      \* events the onAuthStateChange listener logged, in order

vars == <<config, page, session, profiles, entitlements, progress, calls, marks, disp,
          lesson, dir, nav, issued, faults, sessionChanges, forms, authEvents>>

\* ------------------------------------------------------------- the store

\* Rows of public.profiles with primary key u.
RowsOf(u) == SelectSeq(profiles, LAMBDA r : r.id = u)

\* Policy profiles_select_own: USING (id = auth.uid()).
VisibleProfiles(u, auth) == IF auth = u THEN RowsOf(u) ELSE <<>>

\* .select("*").eq("id", u).maybeSingle(): no row gives data null and no
\* error, one row gives the row, several give error PGRST116.
MaybeSingle(rows) ==
  IF Len(rows) = 0 THEN [data |-> NoRow, code |-> "none"]
  ELSE IF Len(rows) = 1 THEN [data |-> rows[1], code |-> "none"]
  ELSE [data |-> NoRow, code |-> "PGRST116"]

\* The row ensureProfileExists inserts.
NewProfile(userId, email) ==
  [id |-> userId, email |-> email, full_name |-> "", avatar_url |-> ""]

InsertCodeNoKey(row, auth) ==
  IF auth # row.id THEN "42501" ELSE "none"

\* INSERT INTO profiles: policy profiles_insert_own WITH CHECK (id =
\* auth.uid()) is checked first (42501), then the primary key (23505).
InsertCode(row, auth) ==
  IF auth # row.id THEN "42501"
  ELSE IF Len(RowsOf(row.id)) > 0 THEN "23505"
  ELSE "none"

\* ------------------------------------------------- ensureProfileExists

IdleCall == [pc |-> "idle", userId |-> "none", email |-> "none",
             success |-> FALSE, profile |-> Unset, error |-> "none",
             rowAtStart |-> Unset, found |-> Unset, wrote |-> FALSE,
             steps |-> <<>>, fetchError |-> "unset", insertError |-> "unset"]

By(c) == IF c = FormCall THEN "form" ELSE "tab"

\* A store or auth request is issued: its table and operation, the id its
\* ownership predicate names, and the session whose token the client sends
\* with it (auth.uid() of the policies).
Issue(by, op, key) ==
  issued' = issued \cup {[by |-> by, op |-> op, key |-> key, auth |-> session]}

Fault(o) == o # Ok
CanFail(o) == Fault(o) => faults < MaxFaults
Count(o) == IF Fault(o) THEN faults + 1 ELSE faults

\* Lines 83-90: the call starts and issues its first read.
BeginCall(c, userId, email) ==
  [IdleCall EXCEPT !.pc = "read", !.userId = userId, !.email = email,
                   !.rowAtStart = MaybeSingle(RowsOf(userId)).data]

HasExistingNever(existingProfile) == FALSE

\* Line 97: if (existingProfile).
HasExisting(existingProfile) == existingProfile # NoRow

FetchFailedNever(fetchError) == FALSE

\* Line 92: if (fetchError && fetchError.code !== 'PGRST116').
FetchFailed(fetchError) == fetchError # "none" /\ fetchError # "PGRST116"

\* Lines 86-99: the first read resolves.
EnsureRead(c) ==
  /\ calls[c].pc = "read"
  /\ c = FormCall => disp.pc = "ensure"
  /\ \E o \in Outcomes, code \in {"PGRST116", "08006"} :
       /\ CanFail(o)
       /\ faults' = Count(o)
       /\ LET res == MaybeSingle(VisibleProfiles(calls[c].userId, session))
              fetchCode == IF o = Err THEN code ELSE res.code
              existing == IF o = Ok THEN res.data ELSE NoRow
              c1 == [calls[c] EXCEPT !.steps = Append(@, "read"),
                       !.fetchError = IF o = Throw THEN "thrown" ELSE fetchCode]
          IN  calls' = [calls EXCEPT ![c] =
                IF o = Throw
                  THEN [c1 EXCEPT !.pc = "returned", !.error = "thrown"]
                ELSE IF FetchFailed(fetchCode)
                  THEN [c1 EXCEPT !.pc = "returned", !.error = fetchCode]
                ELSE IF HasExisting(existing)
                  THEN [c1 EXCEPT !.pc = "returned", !.success = TRUE,
                                  !.profile = existing, !.found = existing]
                ELSE [c1 EXCEPT !.pc = "insert"]]
  /\ Issue(By(c), "profiles.select", calls[c].userId)
  /\ UNCHANGED <<config, forms, authEvents, marks, page, session, profiles, entitlements, progress, disp,
                 lesson, dir, nav, sessionChanges>>

\* Lines 104-131: the insert resolves.
EnsureInsert(c) ==
  /\ calls[c].pc = "insert"
  /\ c = FormCall => disp.pc = "ensure"
  /\ \E o \in Outcomes :
       /\ CanFail(o)
       /\ faults' = Count(o)
       /\ LET row == NewProfile(calls[c].userId, calls[c].email)
              code == IF o = Err THEN "08006" ELSE InsertCode(row, session)
              c1 == [calls[c] EXCEPT !.steps = Append(@, "insert"),
                       !.insertError = IF o = Throw THEN "thrown" ELSE code]
          IN  IF o = Throw
                THEN /\ calls' = [calls EXCEPT ![c] =
                           [c1 EXCEPT !.pc = "returned", !.error = "thrown"]]
                     /\ UNCHANGED profiles
              ELSE IF code = "23505"
                THEN /\ calls' = [calls EXCEPT ![c] =
                           [c1 EXCEPT !.pc = "reread"]]
                     /\ UNCHANGED profiles
              ELSE IF code # "none"
                THEN /\ calls' = [calls EXCEPT ![c] =
                           [c1 EXCEPT !.pc = "returned", !.error = code]]
                     /\ UNCHANGED profiles
              ELSE /\ profiles' = Append(profiles, row)
                   /\ calls' = [calls EXCEPT ![c] =
                         [c1 EXCEPT !.pc = "returned", !.success = TRUE,
                                    !.profile = row, !.wrote = TRUE]]
  /\ Issue(By(c), "profiles.insert", calls[c].userId)
  /\ UNCHANGED <<config, forms, authEvents, marks, page, session, entitlements, progress, disp, lesson, dir,
                 nav, sessionChanges>>

EnsureRereadRetries(c) ==
  /\ calls[c].pc = "reread"
  /\ calls' = [calls EXCEPT ![c] =
       [@ EXCEPT !.pc = "insert", !.steps = Append(@, "reread")]]
  /\ Issue(By(c), "profiles.select", calls[c].userId)
  /\ UNCHANGED <<config, forms, authEvents, page, session, profiles, entitlements, progress,
                 marks, disp, lesson, dir, nav, faults, sessionChanges>>

\* Lines 117-126: after a unique violation the row is read again; only
\* `data` is taken from the result, and success is returned whatever it is.
EnsureReread(c) ==
  /\ calls[c].pc = "reread"
  /\ c = FormCall => disp.pc = "ensure"
  /\ \E o \in Outcomes :
       /\ CanFail(o)
       /\ faults' = Count(o)
       /\ LET res == MaybeSingle(VisibleProfiles(calls[c].userId, session))
              profile == IF o = Ok THEN res.data ELSE NoRow
              c1 == [calls[c] EXCEPT !.steps = Append(@, "reread")]
          IN  calls' = [calls EXCEPT ![c] =
                IF o = Throw
                  THEN [c1 EXCEPT !.pc = "returned", !.error = "thrown"]
                ELSE [c1 EXCEPT !.pc = "returned", !.success = TRUE,
                                !.profile = profile]]
  /\ Issue(By(c), "profiles.select", calls[c].userId)
  /\ UNCHANGED <<config, forms, authEvents, marks, page, session, profiles, entitlements, progress, disp,
                 lesson, dir, nav, sessionChanges>>

\* ------------------------------------------------------------ the page

NoAttr == "absent"
NoSlug == "null"
\* Values of data-protected the pages carry; "" and "members" are unknown.
ProtectionAttrs ==
  {NoAttr, "true", "basic", "account", "profile", "course", "", "members"}
LessonSlugs == {"lesson-1"}

\* CONFIG as the script ships it (lines 52-66), and a window.SB_CONFIG that
\* overrides the login page.
DefaultConfig ==
  [loginPage |-> "/login", afterLogin |-> "/account",
   afterSignup |-> "/account", afterLogout |-> "/login"]
Configs == {DefaultConfig, [DefaultConfig EXCEPT !.loginPage = "/signin"]}

\* CONFIG.redirects.loginPage (line 59) and the gate's literal targets.
LoginPage == config.loginPage
GateLogin == "/login"
NoAccess == "/no-access"

hasDebugFlagOrStored == page.debug \/ session = "U2" \/ entitlements # {}

\* hasDebugFlag(), lines 32-34.
hasDebugFlag == page.debug

\* getCourseSlugFromDom(), lines 1154-1157: the trimmed text of #courseSlug,
\* null when the element is missing or its text is empty.
getCourseSlugFromDom ==
  IF page.courseSlug = "" THEN NoSlug ELSE page.courseSlug

needsAuthNotAccount(protectionType) ==
  protectionType \in {"true", "basic", "profile"}

\* Line 518.
needsAuth(protectionType) ==
  protectionType \in {"true", "basic", "account", "profile"}

\* A page that declares nothing.
BlankPage ==
  [attr |-> NoAttr, debug |-> FALSE, courseSlug |-> NoSlug,
   lessonSlug |-> NoSlug, people |-> FALSE, profilesList |-> FALSE,
   profileForm |-> FALSE, fullNameEl |-> FALSE, entsEl |-> FALSE,
   progEl |-> FALSE, signupForm |-> FALSE, loginForm |-> FALSE,
   logoutBtn |-> FALSE]

IdleDisp == [pc |-> "idle", session |-> "unset", sub |-> "unset",
             ent |-> "unset", redirect |-> "none", threw |-> FALSE,
             handler |-> FALSE, feedback |-> FALSE, sessErr |-> FALSE,
             bypass |-> FALSE]
IdleLesson == [pc |-> "idle", user |-> "unset", shown |-> FALSE,
               threw |-> FALSE, sessErr |-> FALSE]
IdleDir == [pc |-> "idle", user |-> "unset", redirect |-> "none",
            threw |-> FALSE, listed |-> FALSE, cards |-> {}, saves |-> 0]

GetSessionIgnoresError(o) == session

\* supabaseClient.auth.getSession(): data.session, null on an error value.
GetSession(o) == IF o = Ok THEN session ELSE NoSession

\* The task notes that its gating session read resolved with an error value.
Seen(t, o) == [t EXCEPT !.sessErr = @ \/ (o = Err)]

\* window.location.href = to
Redirect(by, to) ==
  nav' = Append(nav, [by |-> by, to |-> to, after |-> issued])


\* An await rejected outside any try block: the task ends there.
Crash(t) == [t EXCEPT !.pc = "done", !.threw = TRUE]

GateStartNoKeyCheck ==
  IF hasDebugFlag THEN "done" ELSE "gateSession"

\* handleCoursePageGating up to its first await, lines 1159-1167.
GateStart ==
  IF hasDebugFlag THEN "done"
  ELSE IF getCourseSlugFromDom = NoSlug THEN "done"
  ELSE "gateSession"

SwitchUnknownOpen(protectionType) ==
  CASE protectionType \in {"true", "basic"} -> "done"
    [] protectionType = "course" -> GateStart
    [] protectionType = "account" -> "acctSession"
    [] protectionType = "profile" -> "form"
    [] OTHER -> "done"

\* The switch of initializePageProtection, lines 527-563.
Switch(protectionType) ==
  CASE protectionType \in {"true", "basic"} -> "done"
    [] protectionType = "course" -> GateStart
    [] protectionType = "account" -> "acctSession"
    [] protectionType = "profile" -> "form"
    [] OTHER -> "defaultAuth"

\* The dispatcher moves on to `target`; "form" is initializeProfileForm
\* (lines 407-419), which calls ensureProfileExists.
Proceed(d, target) ==
  IF target = "form"
    THEN IF ~page.profileForm
           THEN disp' = [d EXCEPT !.pc = "done"] /\ UNCHANGED calls
         ELSE IF d.session = "unset"
           THEN disp' = Crash(d) /\ UNCHANGED calls
         ELSE /\ disp' = [d EXCEPT !.pc = "ensure"]
              /\ calls' = [calls EXCEPT ![FormCall] =
                             BeginCall(FormCall, d.session, Email(d.session))]
  ELSE disp' = [d EXCEPT !.pc = target] /\ UNCHANGED calls

DispStartNoEarlyReturn ==
  IF hasDebugFlag THEN "done"
  ELSE IF needsAuth(page.attr) \/ page.attr = NoAttr THEN "requireAuth"
  ELSE Switch(page.attr)

\* initializePageProtection up to its first await, lines 500-527.
DispStart ==
  IF page.attr = NoAttr THEN "done"
  ELSE IF hasDebugFlag THEN "done"
  ELSE IF needsAuth(page.attr) THEN "requireAuth"
  ELSE Switch(page.attr)

\* initLessonProgressUI, lines 690-700.
LessonStart == IF page.lessonSlug = NoSlug THEN "done" ELSE "session"

\* initProfilesDirectory up to its first await, lines 725-738.
DirStart == IF ~page.people THEN "done" ELSE "session"

\* Lines 511-515: the dispatcher's bypass decision, taken on a page that
\* declares protection.
Bypass == page.attr # NoAttr /\ hasDebugFlag

\* Lines 1411-1418: the three initialization calls, each run to its first
\* await.
PageLoad ==
  /\ disp.pc = "idle"
  /\ Proceed([disp EXCEPT !.bypass = Bypass], DispStart)
  /\ lesson' = [lesson EXCEPT !.pc = LessonStart]
  /\ dir' = [dir EXCEPT !.pc = DirStart]
  /\ UNCHANGED <<config, forms, authEvents, marks, page, session, profiles, entitlements, progress, nav,
                 issued, faults, sessionChanges>>

\* requireAuthOrRedirect (lines 139-148) as awaited at line 522 and at
\* line 562, and the code that follows each.
RequireAuthOrRedirect ==
  /\ disp.pc \in {"requireAuth", "defaultAuth"}
  /\ \E o \in Outcomes :
       /\ CanFail(o)
       /\ faults' = Count(o)
       /\ IF o = Throw
            THEN disp' = Crash(disp) /\ UNCHANGED <<nav, calls>>
          ELSE IF GetSession(o) = NoSession
            THEN /\ disp' = [Seen(disp, o) EXCEPT !.pc = "done",
                                                  !.redirect = LoginPage]
                 /\ Redirect("disp", LoginPage)
                 /\ UNCHANGED calls
          ELSE /\ Proceed([Seen(disp, o) EXCEPT !.session = GetSession(o)],
                          IF disp.pc = "defaultAuth" THEN "done"
                          ELSE Switch(page.attr))
               /\ UNCHANGED nav
  /\ Issue("disp", "auth.getSession", "-")
  /\ UNCHANGED <<config, forms, authEvents, marks, page, session, profiles, entitlements, progress, lesson,
                 dir, sessionChanges>>

GateSessionNoCheck(s) == FALSE

\* Line 1170: if (!session).
GateSessionMissing(s) == s = NoSession

\* handleCoursePageGating, lines 1167-1178: the session read resolves.
GateSession ==
  /\ disp.pc = "gateSession"
  /\ \E o \in Outcomes :
       /\ CanFail(o)
       /\ faults' = Count(o)
       /\ IF o = Throw
            THEN disp' = Crash(disp) /\ UNCHANGED nav
          ELSE IF GateSessionMissing(GetSession(o))
            THEN /\ disp' = [Seen(disp, o) EXCEPT !.pc = "done",
                                                  !.sub = NoSession,
                                                  !.redirect = GateLogin]
                 /\ Redirect("disp", GateLogin)
          ELSE /\ disp' = [Seen(disp, o) EXCEPT !.pc = "gateQuery",
                                                !.sub = GetSession(o)]
               /\ UNCHANGED nav
  /\ Issue("disp", "auth.getSession", "-")
  /\ UNCHANGED <<config, forms, authEvents, marks, page, session, profiles, entitlements, progress, calls,
                 lesson, dir, sessionChanges>>

EntitlementRowsAnyUser(userId, courseSlug, auth) ==
  {e \in entitlements : e[2] = courseSlug}

\* Policy entitlements_select_own with the query's two .eq() filters.
EntitlementRows(userId, courseSlug, auth) ==
  {e \in entitlements : e[1] = userId /\ e[2] = courseSlug /\ e[1] = auth}

\* Line 1191: if (!data || data.length === 0).
GateDenies(rows) == rows = {}

GateQueryGrants ==
  /\ disp.pc = "gateQuery"
  /\ disp' = [disp EXCEPT !.pc = "done", !.ent = "granted"]
  /\ entitlements' = entitlements \cup {<<disp.sub, getCourseSlugFromDom>>}
  /\ Issue("disp", "entitlements.select", disp.sub)
  /\ UNCHANGED <<config, forms, authEvents, page, session, profiles, progress, calls, marks,
                 lesson, dir, nav, faults, sessionChanges>>

\* handleCoursePageGating, lines 1178-1198: the entitlement query resolves.
GateQuery ==
  /\ disp.pc = "gateQuery"
  /\ \E o \in Outcomes :
       /\ CanFail(o)
       /\ faults' = Count(o)
       /\ LET rows == EntitlementRows(disp.sub, getCourseSlugFromDom, session)
          IN  IF o = Throw
                THEN /\ disp' = [Crash(disp) EXCEPT !.ent = "thrown"]
                     /\ UNCHANGED nav
              ELSE IF o = Err
                THEN /\ disp' = [disp EXCEPT !.pc = "done", !.ent = "error",
                                             !.redirect = NoAccess]
                     /\ Redirect("disp", NoAccess)
              ELSE IF GateDenies(rows)
                THEN /\ disp' = [disp EXCEPT !.pc = "done", !.ent = "empty",
                                             !.redirect = NoAccess]
                     /\ Redirect("disp", NoAccess)
              ELSE /\ disp' = [disp EXCEPT !.pc = "done", !.ent = "granted"]
                   /\ UNCHANGED nav
  /\ Issue("disp", "entitlements.select", disp.sub)
  /\ UNCHANGED <<config, forms, authEvents, marks, page, session, profiles, entitlements, progress, calls,
                 lesson, dir, sessionChanges>>

\* populateAccountPage, lines 1203-1229: the session read resolves.
AcctSession ==
  /\ disp.pc = "acctSession"
  /\ \E o \in Outcomes :
       /\ CanFail(o)
       /\ faults' = Count(o)
       /\ disp' =
            IF o = Throw THEN Crash(disp)
            ELSE IF GetSession(o) = NoSession
              THEN [disp EXCEPT !.pc = "progSession", !.sub = NoSession]
            ELSE [disp EXCEPT !.sub = GetSession(o),
                              !.pc = IF page.fullNameEl THEN "acctProfile"
                                     ELSE IF page.entsEl THEN "acctEnts"
                                     ELSE "progSession"]
  /\ Issue("disp", "auth.getSession", "-")
  /\ UNCHANGED <<config, forms, authEvents, marks, page, session, profiles, entitlements, progress, calls,
                 lesson, dir, nav, sessionChanges>>

\* populateAccountPage, lines 1229-1246: the full-name read resolves.
AcctProfile ==
  /\ disp.pc = "acctProfile"
  /\ \E o \in Outcomes :
       /\ CanFail(o)
       /\ faults' = Count(o)
       /\ disp' =
            IF o = Throw THEN Crash(disp)
            ELSE [disp EXCEPT !.pc = IF page.entsEl THEN "acctEnts"
                                     ELSE "progSession"]
  /\ Issue("disp", "profiles.select", disp.sub)
  /\ UNCHANGED <<config, forms, authEvents, marks, page, session, profiles, entitlements, progress, calls,
                 lesson, dir, nav, sessionChanges>>

\* populateAccountPage, lines 1249-1298: the entitlement list resolves;
\* then renderProgressOnAccount starts (line 548).
AcctEnts ==
  /\ disp.pc = "acctEnts"
  /\ \E o \in Outcomes :
       /\ CanFail(o)
       /\ faults' = Count(o)
       /\ disp' =
            IF o = Throw THEN Crash(disp)
            ELSE [disp EXCEPT !.pc = "progSession"]
  /\ Issue("disp", "entitlements.select", disp.sub)
  /\ UNCHANGED <<config, forms, authEvents, marks, page, session, profiles, entitlements, progress, calls,
                 lesson, dir, nav, sessionChanges>>

\* renderProgressOnAccount, lines 1303-1324: the session read resolves.
ProgSession ==
  /\ disp.pc = "progSession"
  /\ \E o \in Outcomes :
       /\ CanFail(o)
       /\ faults' = Count(o)
       /\ IF o = Throw
            THEN disp' = Crash(disp) /\ UNCHANGED calls
          ELSE IF GetSession(o) = NoSession \/ ~page.progEl
            THEN Proceed([disp EXCEPT !.sub = GetSession(o)], "form")
          ELSE /\ disp' = [disp EXCEPT !.pc = "progRead",
                                       !.sub = GetSession(o)]
               /\ UNCHANGED calls
  /\ Issue("disp", "auth.getSession", "-")
  /\ UNCHANGED <<config, forms, authEvents, marks, page, session, profiles, entitlements, progress, lesson,
                 dir, nav, sessionChanges>>

\* renderProgressOnAccount, lines 1324-1397, then lines 549-553.
ProgRead ==
  /\ disp.pc = "progRead"
  /\ \E o \in Outcomes :
       /\ CanFail(o)
       /\ faults' = Count(o)
       /\ IF o = Throw
            THEN disp' = Crash(disp) /\ UNCHANGED calls
          ELSE Proceed(disp, "form")
  /\ Issue("disp", "lesson_progress.select", disp.sub)
  /\ UNCHANGED <<config, forms, authEvents, marks, page, session, profiles, entitlements, progress, lesson,
                 dir, nav, sessionChanges>>

\* initializeProfileForm, lines 419-486: ensureProfileExists has returned.
FormResumeAttaches ==
  /\ disp.pc = "ensure"
  /\ calls[FormCall].pc = "returned"
  /\ disp' = [disp EXCEPT !.pc = "done", !.handler = TRUE]
  /\ UNCHANGED <<config, forms, authEvents, page, session, profiles, entitlements, progress,
                 calls, marks, lesson, dir, nav, issued, faults,
                 sessionChanges>>

FormResume ==
  /\ disp.pc = "ensure"
  /\ calls[FormCall].pc = "returned"
  /\ disp' = IF calls[FormCall].success
               THEN [disp EXCEPT !.pc = "done", !.handler = TRUE]
             ELSE [disp EXCEPT !.pc = "done", !.feedback = TRUE]
  /\ UNCHANGED <<config, forms, authEvents, marks, page, session, profiles, entitlements, progress, calls,
                 lesson, dir, nav, issued, faults, sessionChanges>>

\* Policy lesson_progress_select_own with the query's two .eq() filters.
ProgressRows(userId, lessonSlug, auth) ==
  {r \in progress : r.user_id = userId /\ r.lesson_slug = lessonSlug
                    /\ r.user_id = auth}

\* checkLessonProgress, lines 649-658: getSessionOrNull resolves.
LessonSession ==
  /\ lesson.pc = "session"
  /\ \E o \in Outcomes :
       /\ CanFail(o)
       /\ faults' = Count(o)
       /\ lesson' =
            IF o = Throw THEN Crash(lesson)
            ELSE IF GetSession(o) = NoSession
              THEN [Seen(lesson, o) EXCEPT !.pc = "done"]
            ELSE [Seen(lesson, o) EXCEPT !.pc = "read",
                                         !.user = GetSession(o)]
  /\ Issue("lesson", "auth.getSession", "-")
  /\ UNCHANGED <<config, forms, authEvents, marks, page, session, profiles, entitlements, progress, calls,
                 disp, dir, nav, sessionChanges>>

LessonReadGates ==
  /\ lesson.pc = "read"
  /\ lesson' = [lesson EXCEPT !.pc = "done"]
  /\ Redirect("lesson", NoAccess)
  /\ Issue("lesson", "lesson_progress.select", lesson.user)
  /\ UNCHANGED <<config, forms, authEvents, page, session, profiles, entitlements, progress, calls,
                 marks, disp, dir, faults, sessionChanges>>

\* checkLessonProgress, lines 658-685: the progress read resolves.
LessonRead ==
  /\ lesson.pc = "read"
  /\ \E o \in Outcomes :
       /\ CanFail(o)
       /\ faults' = Count(o)
       /\ LET rows == ProgressRows(lesson.user, page.lessonSlug, session)
          IN lesson' =
               IF o = Throw THEN Crash(lesson)
               ELSE IF o = Err THEN [lesson EXCEPT !.pc = "done"]
               ELSE [lesson EXCEPT !.pc = "done",
                                   !.shown = \E r \in rows : r.completed]
  /\ Issue("lesson", "lesson_progress.select", lesson.user)
  /\ UNCHANGED <<config, forms, authEvents, marks, page, session, profiles, entitlements, progress, calls,
                 disp, dir, nav, sessionChanges>>

\* ---------------------------------------------------- markLessonComplete

Markers == 1..MaxMarks
\* #lessonSlug of the lesson pages the tabs show.
TabLessonSlugs == {"lesson-1", "lesson-2"}

IdleMark == [pc |-> "idle", lessonSlug |-> NoSlug, userId |-> "unset",
             nowIso |-> 0, saved |-> FALSE, failed |-> FALSE,
             threw |-> FALSE, before |-> {}, after |-> {},
             error |-> "unset", shown |-> FALSE, feedback |-> "none"]

\* readText("lessonSlug") at the time of the click (lines 581-584, 599): a
\* slug, the empty text, or null when the element is gone.
MarkLessonTexts == TabLessonSlugs \cup {"", NoSlug}

NoLessonKeyNever(lessonSlug) == FALSE

\* Line 601: if (!lessonSlug).
NoLessonKey(lessonSlug) == lessonSlug \in {"", NoSlug}

\* new Date().toISOString() at line 606: a clock that advances with every
\* reading; the rows of the initial tables were written at 0.
Now == 1 + Cardinality({m \in Markers : marks[m].nowIso > 0})

MarkPayloadIncomplete(userId, lessonSlug, nowIso) ==
  [user_id |-> userId, lesson_slug |-> lessonSlug, completed |-> FALSE,
   updated_at |-> nowIso]

\* The payload of lines 608-617 (course_slug and module_slug, which no
\* decision reads, are left out; the three timestamps are one value).
MarkPayload(userId, lessonSlug, nowIso) ==
  [user_id |-> userId, lesson_slug |-> lessonSlug, completed |-> TRUE,
   updated_at |-> nowIso]

ConflictRowsNone(payload) == {}

\* UNIQUE(user_id, lesson_slug), the arbiter of onConflict: the rows the
\* payload collides with.
ConflictRows(payload) ==
  {r \in progress : r.user_id = payload.user_id
                    /\ r.lesson_slug = payload.lesson_slug}

\* gen_random_uuid(): an id no row has.
FreshId == 1 + Cardinality(progress)

UpsertOverwrite(payload, auth) ==
  [code |-> "none",
   table |-> {[id |-> 1, user_id |-> payload.user_id,
               lesson_slug |-> payload.lesson_slug,
               completed |-> payload.completed,
               updated_at |-> payload.updated_at]}]

\* INSERT ... ON CONFLICT (user_id, lesson_slug) DO UPDATE under the
\* policies lesson_progress_insert_own (WITH CHECK) and
\* lesson_progress_update_own (USING): the error code and the new table.
Upsert(payload, auth) ==
  IF auth # payload.user_id
    THEN [code |-> "42501", table |-> progress]
  ELSE IF ConflictRows(payload) = {}
    THEN [code |-> "none",
          table |-> progress \cup
            {[id |-> FreshId, user_id |-> payload.user_id,
              lesson_slug |-> payload.lesson_slug,
              completed |-> payload.completed,
              updated_at |-> payload.updated_at]}]
  ELSE [code |-> "none",
        table |-> (progress \ ConflictRows(payload)) \cup
          {[r EXCEPT !.completed = payload.completed,
                     !.updated_at = payload.updated_at] :
             r \in ConflictRows(payload)}]

\* The table without its timestamps.
Strip(table) ==
  {[id |-> r.id, user_id |-> r.user_id, lesson_slug |-> r.lesson_slug,
    completed |-> r.completed] : r \in table}

\* Lines 705-707: #markCompleteBtn is clicked in a tab showing a lesson.
MarkClick(m) ==
  /\ marks[m].pc = "idle"
  /\ \E slug \in MarkLessonTexts :
       marks' = [marks EXCEPT ![m] = [@ EXCEPT !.pc = "session",
                                             !.lessonSlug = slug]]
  /\ UNCHANGED <<config, forms, authEvents, page, session, profiles, entitlements, progress, calls,
                 disp, lesson, dir, nav, issued, faults, sessionChanges>>

\* markLessonComplete, lines 589-619: getSessionOrNull resolves.
MarkSession(m) ==
  /\ marks[m].pc = "session"
  /\ \E o \in Outcomes :
       /\ CanFail(o)
       /\ faults' = Count(o)
       /\ marks' = [marks EXCEPT ![m] =
            IF o = Throw THEN Crash(@)
            ELSE IF GetSession(o) = NoSession THEN [@ EXCEPT !.pc = "done"]
            ELSE IF NoLessonKey(@.lessonSlug)
              THEN [@ EXCEPT !.pc = "done", !.userId = GetSession(o)]
            ELSE [@ EXCEPT !.pc = "upsert", !.userId = GetSession(o),
                           !.nowIso = Now]]
  /\ Issue("mark", "auth.getSession", "-")
  /\ UNCHANGED <<config, forms, authEvents, page, session, profiles, entitlements, progress, calls,
                 disp, lesson, dir, nav, sessionChanges>>

UpsertFailedNever(error) == FALSE

\* Line 623: if (error).
UpsertFailed(error) == error # "none"

\* markLessonComplete, lines 619-644: the upsert resolves; on an error the
\* message is shown, else #completionStatus and #markCompleteBtn are set.
MarkUpsert(m) ==
  /\ marks[m].pc = "upsert"
  /\ \E o \in Outcomes :
       /\ CanFail(o)
       /\ faults' = Count(o)
       /\ LET res == Upsert(MarkPayload(marks[m].userId, marks[m].lessonSlug,
                                        marks[m].nowIso), session)
              error == IF o = Err THEN "08006" ELSE res.code
          IN  /\ progress' = IF o = Ok THEN res.table ELSE progress
              /\ marks' = [marks EXCEPT ![m] =
                   IF o = Throw
                     THEN [Crash(@) EXCEPT !.error = "thrown"]
                   ELSE IF UpsertFailed(error)
                     THEN [@ EXCEPT !.pc = "done", !.failed = TRUE,
                                    !.error = error,
                                    !.feedback = "Could not save progress"]
                   ELSE [@ EXCEPT !.pc = "done", !.saved = TRUE,
                                  !.error = error, !.shown = TRUE,
                                  !.feedback = "Progress saved!",
                                  !.before = Strip(progress),
                                  !.after = Strip(res.table)]]
  /\ Issue("mark", "lesson_progress.upsert", marks[m].userId)
  /\ UNCHANGED <<config, forms, authEvents, page, session, profiles, entitlements, calls, disp, lesson,
                 dir, nav, sessionChanges>>

isProtectedByPath == page.people
isProtectedNever == FALSE

\* Lines 734-735: isProtected = protectedEl !== null.
isProtected == page.attr # NoAttr

\* initProfilesDirectory, lines 738-785: the session read resolves.
DirSession ==
  /\ dir.pc = "session"
  /\ \E o \in Outcomes :
       /\ CanFail(o)
       /\ faults' = Count(o)
       /\ IF o = Throw
            THEN dir' = Crash(dir) /\ UNCHANGED nav
          ELSE IF isProtected /\ GetSession(o) = NoSession
            THEN /\ dir' = [dir EXCEPT !.pc = "done", !.user = NoSession,
                                       !.redirect = LoginPage]
                 /\ Redirect("dir", LoginPage)
          ELSE /\ dir' = [dir EXCEPT !.user = GetSession(o),
                            !.pc = IF page.profilesList THEN "rpc"
                                   ELSE "done"]
               /\ UNCHANGED nav
  /\ Issue("dir", "auth.getSession", "-")
  /\ UNCHANGED <<config, forms, authEvents, marks, page, session, profiles, entitlements, progress, calls,
                 disp, lesson, sessionChanges>>

\* The ids list_profile_cards_public returns: every profile, to everyone.
ProfileIds == {profiles[i].id : i \in 1..Len(profiles)}

\* initProfilesDirectory, lines 785-920: list_profile_cards_public resolves
\* inside the try block.
DirRpc ==
  /\ dir.pc = "rpc"
  /\ \E o \in Outcomes :
       /\ CanFail(o)
       /\ faults' = Count(o)
       /\ dir' = [dir EXCEPT !.pc = "done", !.listed = (o = Ok),
                             !.cards = IF o = Ok THEN ProfileIds ELSE {}]
  /\ Issue("dir", "rpc.list_profile_cards_public", "-")
  /\ UNCHANGED <<config, forms, authEvents, marks, page, session, profiles, entitlements, progress, calls,
                 disp, lesson, nav, sessionChanges>>

\* UPDATE profiles ... WHERE id = profileId under the policy
\* profiles_update_own, USING (id = auth.uid()).
UpdateOwn(profileId, auth) ==
  [i \in 1..Len(profiles) |->
     IF profiles[i].id = profileId /\ profiles[i].id = auth
       THEN [profiles[i] EXCEPT !.full_name = "edited"]
     ELSE profiles[i]]

\* handleDirectoryClick, lines 922-962, and saveProfileChanges, lines
\* 1002-1036: the save button of a card is clicked; profileId is the card's
\* data-profile-id, and the click passes only when it equals currentUserId,
\* the id of the session read at line 738.
DirSave ==
  /\ dir.pc = "done" /\ dir.listed /\ nav = <<>>
  /\ dir.saves < MaxSaves
  /\ \E profileId \in dir.cards, o \in Outcomes :
       /\ profileId = dir.user
       /\ CanFail(o)
       /\ faults' = Count(o)
       /\ profiles' = IF o = Ok THEN UpdateOwn(profileId, session)
                      ELSE profiles
       /\ dir' = [dir EXCEPT !.saves = @ + 1]
       /\ Issue("save", "profiles.update", profileId)
  /\ UNCHANGED <<config, forms, authEvents, page, session, entitlements, progress, calls, marks, disp,
                 lesson, nav, sessionChanges>>

Running(t) == t.pc \notin {"idle", "done", "unloaded"}
Stop(t) == IF Running(t) THEN [t EXCEPT !.pc = "unloaded"] ELSE t

\* The navigation a redirect started takes the page away: every task still
\* waiting on an await is dropped.
Unload ==
  /\ nav # <<>>
  /\ Running(disp) \/ Running(lesson) \/ Running(dir)
  /\ disp' = Stop(disp)
  /\ lesson' = Stop(lesson)
  /\ dir' = Stop(dir)
  /\ UNCHANGED <<config, forms, authEvents, marks, page, session, profiles, entitlements, progress, calls,
                 nav, issued, faults, sessionChanges>>

\* ------------------------------------------- the form and button handlers

Forms == {"signup", "login", "logout", "profile"}

\* An activation of a handler: the identity it works for, the error its
\* remote call returned, what it showed and where it sent the browser.
IdleForm == [pc |-> "idle", count |-> 0, user |-> "unset",
             seen |-> "unset", key |-> "unset", atLoad |-> "unset",
             error |-> "unset", feedback |-> "none", redirect |-> "none",
             updates |-> 0, gotUser |-> FALSE, gotSession |-> FALSE]

\* What the user typed into the email and password fields.
Emails == {""} \cup {Email(u) : u \in Users}
Passwords == {"", "pw"}
UserOf(email) == CHOOSE u \in Users : Email(u) = email

\* Lines 185 and 231: if (!email || !password).
FieldsMissing(email, password) == email = "" \/ password = ""

\* The handler of form f can be entered: the script has run, the page is not
\* being left, and the form was submitted fewer than MaxSubmits times.
CanSubmit(f) ==
  /\ disp.pc # "idle"
  /\ nav = <<>>
  /\ forms[f].pc \in {"idle", "done"}
  /\ forms[f].count < MaxSubmits

\* A new activation of the handler of form f.
Activation(f) == [IdleForm EXCEPT !.count = forms[f].count + 1]

\* The event the listener is called with when the session becomes s.
AuthEventOf(s) == IF s = NoSession THEN "SIGNED_OUT" ELSE "SIGNED_IN"

\* The onAuthStateChange listener, lines 1130-1148: every case of its switch
\* writes a line to the console and nothing else.
OnAuthStateChange(event) == authEvents' = Append(authEvents, event)

\* Lines 178-191: #signupForm is submitted.
SignupSubmit ==
  /\ page.signupForm
  /\ CanSubmit("signup")
  /\ \E email \in Emails, password \in Passwords :
       forms' = [forms EXCEPT !["signup"] =
         IF FieldsMissing(email, password)
           THEN [Activation("signup") EXCEPT !.pc = "done",
                   !.feedback = "Please fill in all fields"]
         ELSE [Activation("signup") EXCEPT !.pc = "signUp",
                 !.user = UserOf(email)]]
  /\ UNCHANGED <<config, authEvents, marks, page, session, profiles,
                 entitlements, progress, calls, disp, lesson, dir, nav,
                 issued, faults, sessionChanges>>

\* What auth.signUp resolves with when it reports no error: a user and a
\* session, a user whose email is still to be confirmed, or neither.
SignUpData ==
  {[user |-> TRUE, session |-> TRUE], [user |-> TRUE, session |-> FALSE],
   [user |-> FALSE, session |-> FALSE]}

SignedInAnyUser(data) == data.user

\* Line 201: else if (data.user && data.session).
SignedIn(data) == data.user /\ data.session

\* The activation of ensureProfileExists the signup handler awaits.
SignupCall == 1

AuthFailedNever(error) == FALSE

\* Lines 196, 242 and 263: if (error) throw error, and a rejected promise,
\* both end in the catch block.
AuthFailed(error) == error # "none"

\* The error a provider call ends with: the promise rejected, the transport
\* failed, the provider refused the request, or none.
AuthError(o, accepted) ==
  IF o = Throw THEN "thrown"
  ELSE IF o = Err THEN "network"
  ELSE IF ~accepted THEN "refused"
  ELSE "none"

\* Lines 191-203: auth.signUp resolves; with a user and a session the
\* provider has signed the user in, and ensureProfileExists is called.
SignupResolve ==
  /\ forms["signup"].pc = "signUp"
  /\ \E o \in Outcomes, accepted \in BOOLEAN, data \in SignUpData :
       /\ CanFail(o)
       /\ faults' = Count(o)
       /\ LET f == forms["signup"]
              error == AuthError(o, accepted)
          IN  IF AuthFailed(error)
                THEN /\ forms' = [forms EXCEPT !["signup"] =
                           [f EXCEPT !.pc = "done", !.error = error,
                                     !.feedback = error]]
                     /\ UNCHANGED <<session, calls, authEvents>>
              ELSE IF SignedIn(data)
                THEN /\ forms' = [forms EXCEPT !["signup"] =
                           [f EXCEPT !.pc = "ensure", !.error = error,
                                     !.gotUser = data.user,
                                     !.gotSession = data.session]]
                     /\ session' = f.user
                     /\ OnAuthStateChange(AuthEventOf(f.user))
                     /\ calls' = [calls EXCEPT ![SignupCall] =
                           BeginCall(SignupCall, f.user, Email(f.user))]
              ELSE /\ forms' = [forms EXCEPT !["signup"] =
                         [f EXCEPT !.pc = "done", !.error = error,
                                   !.gotUser = data.user,
                                   !.gotSession = data.session,
                                   !.feedback = IF data.user
                                     THEN "Check your email to confirm your account!"
                                     ELSE "none"]]
                   /\ UNCHANGED <<session, calls, authEvents>>
  /\ Issue("signup", "auth.signUp", "-")
  /\ UNCHANGED <<config, marks, page, profiles, entitlements, progress,
                 disp, lesson, dir, nav, sessionChanges>>

\* Lines 203-205: ensureProfileExists has returned; its result is not read.
SignupResume ==
  /\ forms["signup"].pc = "ensure"
  /\ calls[SignupCall].pc = "returned"
  /\ forms' = [forms EXCEPT !["signup"] =
       [@ EXCEPT !.pc = "done", !.redirect = config.afterSignup]]
  /\ Redirect("signup", config.afterSignup)
  /\ UNCHANGED <<config, authEvents, marks, page, session, profiles,
                 entitlements, progress, calls, disp, lesson, dir, issued,
                 faults, sessionChanges>>

\* Lines 224-237: #loginForm is submitted.
LoginSubmit ==
  /\ page.loginForm
  /\ CanSubmit("login")
  /\ \E email \in Emails, password \in Passwords :
       forms' = [forms EXCEPT !["login"] =
         IF FieldsMissing(email, password)
           THEN [Activation("login") EXCEPT !.pc = "done",
                   !.feedback = "Please fill in all fields"]
         ELSE [Activation("login") EXCEPT !.pc = "signIn",
                 !.user = UserOf(email)]]
  /\ UNCHANGED <<config, authEvents, marks, page, session, profiles,
                 entitlements, progress, calls, disp, lesson, dir, nav,
                 issued, faults, sessionChanges>>

\* Lines 237-247: auth.signInWithPassword resolves.
LoginResolve ==
  /\ forms["login"].pc = "signIn"
  /\ \E o \in Outcomes, accepted \in BOOLEAN :
       /\ CanFail(o)
       /\ faults' = Count(o)
       /\ LET f == forms["login"]
              error == AuthError(o, accepted)
          IN  IF AuthFailed(error)
                THEN /\ forms' = [forms EXCEPT !["login"] =
                           [f EXCEPT !.pc = "done", !.error = error,
                                     !.feedback = error]]
                     /\ UNCHANGED <<session, nav, authEvents>>
              ELSE /\ forms' = [forms EXCEPT !["login"] =
                         [f EXCEPT !.pc = "done", !.error = error,
                                   !.seen = f.user,
                                   !.redirect = config.afterLogin]]
                   /\ session' = f.user
                   /\ OnAuthStateChange(AuthEventOf(f.user))
                   /\ Redirect("login", config.afterLogin)
  /\ Issue("login", "auth.signInWithPassword", "-")
  /\ UNCHANGED <<config, marks, page, profiles, entitlements, progress,
                 calls, disp, lesson, dir, sessionChanges>>

\* Lines 260-262: #logoutBtn is clicked.
LogoutClick ==
  /\ page.logoutBtn
  /\ CanSubmit("logout")
  /\ forms' = [forms EXCEPT !["logout"] =
       [Activation("logout") EXCEPT !.pc = "signOut"]]
  /\ UNCHANGED <<config, authEvents, marks, page, session, profiles,
                 entitlements, progress, calls, disp, lesson, dir, nav,
                 issued, faults, sessionChanges>>

\* Lines 262-268: auth.signOut resolves.
LogoutResolve ==
  /\ forms["logout"].pc = "signOut"
  /\ \E o \in Outcomes :
       /\ CanFail(o)
       /\ faults' = Count(o)
       /\ LET f == forms["logout"]
              error == AuthError(o, TRUE)
          IN  IF AuthFailed(error)
                THEN /\ forms' = [forms EXCEPT !["logout"] =
                           [f EXCEPT !.pc = "done", !.error = error,
                                     !.feedback = error]]
                     /\ UNCHANGED <<session, nav, authEvents>>
              ELSE /\ forms' = [forms EXCEPT !["logout"] =
                         [f EXCEPT !.pc = "done", !.error = error,
                                   !.redirect = config.afterLogout]]
                   /\ session' = NoSession
                   /\ OnAuthStateChange("SIGNED_OUT")
                   /\ Redirect("logout", config.afterLogout)
  /\ Issue("logout", "auth.signOut", "-")
  /\ UNCHANGED <<config, marks, page, profiles, entitlements, progress,
                 calls, disp, lesson, dir, sessionChanges>>

\* Lines 442-454: #profileForm is submitted; the handler is there when
\* initializeProfileForm attached it.
FormSubmit ==
  /\ disp.handler
  /\ CanSubmit("profile")
  /\ forms' = [forms EXCEPT !["profile"] =
       [Activation("profile") EXCEPT !.pc = "session",
                                     !.atLoad = disp.session]]
  /\ UNCHANGED <<config, authEvents, marks, page, session, profiles,
                 entitlements, progress, calls, disp, lesson, dir, nav,
                 issued, faults, sessionChanges>>

SubmitKeyAtLoad(currentSession) == disp.session

\* Line 469: .eq("id", currentSession.user.id).
SubmitKey(currentSession) == currentSession

\* Lines 454-463: the session read at submission time resolves.
SubmitSession ==
  /\ forms["profile"].pc = "session"
  /\ \E o \in Outcomes :
       /\ CanFail(o)
       /\ faults' = Count(o)
       /\ LET f == forms["profile"]
          IN  IF o = Throw
                THEN /\ forms' = [forms EXCEPT !["profile"] =
                           [f EXCEPT !.pc = "done", !.error = "thrown",
                                     !.feedback = "thrown"]]
                     /\ UNCHANGED nav
              ELSE IF GetSession(o) = NoSession
                THEN /\ forms' = [forms EXCEPT !["profile"] =
                           [f EXCEPT !.pc = "done", !.seen = GetSession(o),
                              !.feedback = "Session expired. Please log in again.",
                              !.redirect = LoginPage]]
                     /\ Redirect("submit", LoginPage)
              ELSE /\ forms' = [forms EXCEPT !["profile"] =
                         [f EXCEPT !.pc = "update", !.seen = GetSession(o),
                                   !.key = SubmitKey(GetSession(o))]]
                   /\ UNCHANGED nav
  /\ Issue("submit", "auth.getSession", "-")
  /\ UNCHANGED <<config, authEvents, marks, page, session, profiles,
                 entitlements, progress, calls, disp, lesson, dir,
                 sessionChanges>>

\* Lines 463-478: the update resolves.
SubmitUpdate ==
  /\ forms["profile"].pc = "update"
  /\ \E o \in Outcomes :
       /\ CanFail(o)
       /\ faults' = Count(o)
       /\ profiles' = IF o = Ok THEN UpdateOwn(forms["profile"].key, session)
                      ELSE profiles
       /\ forms' = [forms EXCEPT !["profile"] =
            [@ EXCEPT !.pc = "done", !.updates = @ + 1,
                      !.error = IF o = Ok THEN "none" ELSE "failed",
                      !.feedback = IF o = Ok
                        THEN "Profile updated successfully!" ELSE "failed"]]
  /\ Issue("submit", "profiles.update", forms["profile"].key)
  /\ UNCHANGED <<config, authEvents, marks, page, session, entitlements,
                 progress, calls, disp, lesson, dir, nav, sessionChanges>>

\* ------------------------------------------------------ the environment

SessionChangeRedirects ==
  /\ sessionChanges < MaxSessionChanges
  /\ \E s \in Sessions \ {session} :
       /\ session' = s
       /\ OnAuthStateChange(AuthEventOf(s))
       /\ nav' = IF s = NoSession
                   THEN Append(nav, [by |-> "listener", to |-> LoginPage,
                                     after |-> issued])
                 ELSE nav
  /\ sessionChanges' = sessionChanges + 1
  /\ UNCHANGED <<config, forms, marks, page, profiles, entitlements,
                 progress, calls, disp, lesson, dir, issued, faults>>

\* Another tab signs in or out: the shared session changes, and the client
\* calls this tab's listener with the event.
SessionChange ==
  /\ sessionChanges < MaxSessionChanges
  /\ \E s \in Sessions \ {session} :
       /\ session' = s
       /\ OnAuthStateChange(AuthEventOf(s))
  /\ sessionChanges' = sessionChanges + 1
  /\ UNCHANGED <<config, forms, marks, page, profiles, entitlements,
                 progress, calls, disp, lesson, dir, nav, issued, faults>>

\* The client refreshes the token or the user's record is updated: the
\* session's identity stays, and the listener is called with the event.
AuthEvent ==
  /\ Len(authEvents) < MaxAuthEvents
  /\ session # NoSession
  /\ \E event \in {"TOKEN_REFRESHED", "USER_UPDATED"} :
       OnAuthStateChange(event)
  /\ UNCHANGED <<config, forms, marks, page, session, profiles,
                 entitlements, progress, calls, disp, lesson, dir, nav,
                 issued, faults, sessionChanges>>

\* --------------------------------------------- SpecEnsure: concurrent calls

\* Tables the schema admits: at most one profile row per user. A row's
\* email is the one the account had when the row was written, which the
\* account's present email (session.user.email) may differ from.
ProfileTables ==
  {<<>>, <<NewProfile("U1", Email("U1"))>>,
   <<NewProfile("U1", "old@example.com")>>,
   <<NewProfile("U2", Email("U2"))>>,
   <<NewProfile("U1", Email("U1")), NewProfile("U2", Email("U2"))>>}

InitEnsure ==
  /\ config = DefaultConfig
  /\ page = BlankPage
  /\ session \in Sessions
  /\ profiles \in ProfileTables
  /\ entitlements = {}
  /\ progress = {}
  /\ calls = [c \in Callers |-> IdleCall]
  /\ marks = [m \in Markers |-> IdleMark]
  /\ disp = IdleDisp
  /\ lesson = IdleLesson
  /\ dir = IdleDir
  /\ nav = <<>>
  /\ issued = {}
  /\ faults = 0
  /\ sessionChanges = 0
  /\ forms = [f \in Forms |-> IdleForm]
  /\ authEvents = <<>>

\* A tab calls ensureProfileExists(session.user.id, session.user.email).
TabCall(c) ==
  /\ c # FormCall
  /\ calls[c].pc = "idle"
  /\ session # NoSession
  /\ calls' = [calls EXCEPT ![c] = BeginCall(c, session, Email(session))]
  /\ UNCHANGED <<config, forms, authEvents, marks, page, session, profiles, entitlements, progress, disp,
                 lesson, dir, nav, issued, faults, sessionChanges>>

Tabs == Callers \ {FormCall}

NextEnsure ==
  \/ \E c \in Tabs : TabCall(c)
  \/ \E c \in Tabs : EnsureRead(c)
  \/ \E c \in Tabs : EnsureInsert(c)
  \/ \E c \in Tabs : EnsureReread(c)
  \/ SessionChange

SpecEnsure == InitEnsure /\ [][NextEnsure]_vars

\* A request that was sent resolves: each step of a call that is under way
\* is eventually taken.
FairEnsure ==
  /\ SpecEnsure
  /\ \A c \in Tabs : /\ WF_vars(EnsureRead(c))
                      /\ WF_vars(EnsureInsert(c))
                      /\ WF_vars(EnsureReread(c))

\* ------------------------------------------------- Spec: one page load

\* The pages of Spec carry none of the auth forms (SpecAuth has those).
\* Every other element varies on the pages whose code reads it: #courseSlug on
\* course pages, #profileForm on account and profile pages, the account
\* containers on account pages, #profilesList on /people pages; all of them
\* but the account containers vary on the unprotected page too. Lesson and
\* course pages live under CONFIG.urlPatterns (lines 62-65), so a protected
\* /people page carries neither slug.
Pages ==
  {p \in [attr : ProtectionAttrs, debug : BOOLEAN,
          courseSlug : {NoSlug, "", "course-101"},
          lessonSlug : {NoSlug} \cup LessonSlugs,
          people : BOOLEAN, profilesList : BOOLEAN, profileForm : BOOLEAN,
          fullNameEl : BOOLEAN, entsEl : BOOLEAN, progEl : BOOLEAN,
          signupForm : {FALSE}, loginForm : {FALSE}, logoutBtn : {FALSE}] :
     /\ p.attr # "account" => ~p.fullNameEl /\ ~p.entsEl /\ ~p.progEl
     /\ p.attr \notin {"course", NoAttr} => p.courseSlug = NoSlug
     /\ p.attr # "course" => p.courseSlug # ""
     /\ p.attr \notin {"account", "profile", NoAttr} => ~p.profileForm
     /\ p.people /\ p.attr # NoAttr =>
          p.courseSlug = NoSlug /\ p.lessonSlug = NoSlug
     /\ ~p.people => ~p.profilesList}

EntitlementSets ==
  SUBSET {<<"U1", "course-101">>, <<"U2", "course-101">>,
          <<"U1", "course-202">>}

ProgressTables ==
  {{},
   {[id |-> 1, user_id |-> "U1", lesson_slug |-> "lesson-1",
     completed |-> TRUE, updated_at |-> 0]},
   {[id |-> 1, user_id |-> "U1", lesson_slug |-> "lesson-1",
     completed |-> FALSE, updated_at |-> 0]}}

\* The tables vary where the page's code reads them for a decision.
Init ==
  /\ config = DefaultConfig
  /\ page \in Pages
  /\ session \in Sessions
  /\ profiles \in IF (page.profileForm /\ page.attr \in {"account", "profile"})
                       \/ page.profilesList
                    THEN ProfileTables ELSE {<<>>}
  /\ entitlements \in IF page.attr = "course" THEN EntitlementSets ELSE {{}}
  /\ progress \in IF page.lessonSlug # NoSlug THEN ProgressTables ELSE {{}}
  /\ calls = [c \in Callers |-> IdleCall]
  /\ marks = [m \in Markers |-> IdleMark]
  /\ disp = IdleDisp
  /\ lesson = IdleLesson
  /\ dir = IdleDir
  /\ nav = <<>>
  /\ issued = {}
  /\ faults = 0
  /\ sessionChanges = 0
  /\ forms = [f \in Forms |-> IdleForm]
  /\ authEvents = <<>>

Next ==
  \/ PageLoad
  \/ RequireAuthOrRedirect
  \/ GateSession
  \/ GateQuery
  \/ AcctSession
  \/ AcctProfile
  \/ AcctEnts
  \/ ProgSession
  \/ ProgRead
  \/ EnsureRead(FormCall)
  \/ EnsureInsert(FormCall)
  \/ EnsureReread(FormCall)
  \/ FormResume
  \/ LessonSession
  \/ LessonRead
  \/ DirSession
  \/ DirRpc
  \/ DirSave
  \/ SessionChange
  \/ Unload

Spec == Init /\ [][Next]_vars

\* ------------------------------- SpecProgress: lesson progress of tabs

\* The page is a lesson page, or an account page with the progress list.
\* Neither has a task left waiting when a redirect is issued, so Unload has
\* nothing to stop here.
ProgressPages ==
  {[BlankPage EXCEPT !.lessonSlug = "lesson-1"],
   [BlankPage EXCEPT !.attr = "account", !.progEl = TRUE]}

InitProgress ==
  /\ config = DefaultConfig
  /\ page \in ProgressPages
  /\ session \in Sessions
  /\ profiles = <<>>
  /\ entitlements = {}
  /\ progress \in ProgressTables
  /\ calls = [c \in Callers |-> IdleCall]
  /\ marks = [m \in Markers |-> IdleMark]
  /\ disp = IdleDisp
  /\ lesson = IdleLesson
  /\ dir = IdleDir
  /\ nav = <<>>
  /\ issued = {}
  /\ faults = 0
  /\ sessionChanges = 0
  /\ forms = [f \in Forms |-> IdleForm]
  /\ authEvents = <<>>

NextProgress ==
  \/ PageLoad
  \/ RequireAuthOrRedirect
  \/ AcctSession
  \/ ProgSession
  \/ ProgRead
  \/ LessonSession
  \/ LessonRead
  \/ \E m \in Markers : MarkClick(m)
  \/ \E m \in Markers : MarkSession(m)
  \/ \E m \in Markers : MarkUpsert(m)
  \/ SessionChange

SpecProgress == InitProgress /\ [][NextProgress]_vars

\* ----------------------- SpecConfig: page loads of an anonymous visitor

\* Page loads with no session from start to end, under either CONFIG: the
\* steps are those a run without a session can take.
InitConfig ==
  /\ config \in Configs
  /\ page \in Pages
  /\ session = NoSession
  /\ profiles = <<>>
  /\ entitlements = {}
  /\ progress = {}
  /\ calls = [c \in Callers |-> IdleCall]
  /\ marks = [m \in Markers |-> IdleMark]
  /\ disp = IdleDisp
  /\ lesson = IdleLesson
  /\ dir = IdleDir
  /\ nav = <<>>
  /\ issued = {}
  /\ faults = 0
  /\ sessionChanges = 0
  /\ forms = [f \in Forms |-> IdleForm]
  /\ authEvents = <<>>

NextConfig ==
  \/ PageLoad
  \/ RequireAuthOrRedirect
  \/ GateSession
  \/ LessonSession
  \/ DirSession
  \/ DirRpc
  \/ Unload

SpecConfig == InitConfig /\ [][NextConfig]_vars

\* ----------------------------- SpecForm: the profile form is submitted

\* A profile page and an account page, each with #profileForm.
FormPages ==
  {[BlankPage EXCEPT !.attr = "profile", !.profileForm = TRUE],
   [BlankPage EXCEPT !.attr = "account", !.profileForm = TRUE]}

InitForm ==
  /\ config = DefaultConfig
  /\ page \in FormPages
  /\ session \in Sessions
  /\ profiles \in ProfileTables
  /\ entitlements = {}
  /\ progress = {}
  /\ calls = [c \in Callers |-> IdleCall]
  /\ marks = [m \in Markers |-> IdleMark]
  /\ disp = IdleDisp
  /\ lesson = IdleLesson
  /\ dir = IdleDir
  /\ nav = <<>>
  /\ issued = {}
  /\ faults = 0
  /\ sessionChanges = 0
  /\ forms = [f \in Forms |-> IdleForm]
  /\ authEvents = <<>>

NextForm ==
  \/ PageLoad
  \/ RequireAuthOrRedirect
  \/ AcctSession
  \/ ProgSession
  \/ EnsureRead(FormCall)
  \/ EnsureInsert(FormCall)
  \/ EnsureReread(FormCall)
  \/ FormResume
  \/ FormSubmit
  \/ SubmitSession
  \/ SubmitUpdate
  \/ SessionChange

SpecForm == InitForm /\ [][NextForm]_vars

\* ------------------- SpecAuth: signup, login, logout and the listener

\* A signup page, a login page, and two protected pages with #logoutBtn.
AuthPages ==
  {[BlankPage EXCEPT !.signupForm = TRUE],
   [BlankPage EXCEPT !.loginForm = TRUE],
   [BlankPage EXCEPT !.attr = "basic", !.logoutBtn = TRUE],
   [BlankPage EXCEPT !.attr = "course", !.courseSlug = "course-101",
                     !.logoutBtn = TRUE]}

InitAuth ==
  /\ config = DefaultConfig
  /\ page \in AuthPages
  /\ session \in Sessions
  /\ profiles \in IF page.signupForm THEN ProfileTables ELSE {<<>>}
  /\ entitlements \in IF page.attr = "course"
                         THEN {{}, {<<"U1", "course-101">>}} ELSE {{}}
  /\ progress = {}
  /\ calls = [c \in Callers |-> IdleCall]
  /\ marks = [m \in Markers |-> IdleMark]
  /\ disp = IdleDisp
  /\ lesson = IdleLesson
  /\ dir = IdleDir
  /\ nav = <<>>
  /\ issued = {}
  /\ faults = 0
  /\ sessionChanges = 0
  /\ forms = [f \in Forms |-> IdleForm]
  /\ authEvents = <<>>

NextAuth ==
  \/ PageLoad
  \/ RequireAuthOrRedirect
  \/ GateSession
  \/ GateQuery
  \/ SignupSubmit
  \/ SignupResolve
  \/ EnsureRead(SignupCall)
  \/ EnsureInsert(SignupCall)
  \/ EnsureReread(SignupCall)
  \/ SignupResume
  \/ LoginSubmit
  \/ LoginResolve
  \/ LogoutClick
  \/ LogoutResolve
  \/ SessionChange
  \/ AuthEvent

SpecAuth == InitAuth /\ [][NextAuth]_vars

\* ---------------------------------------------------------------- claims

\* No remote call failed and the session is the one the run started with.
Nominal == faults = 0 /\ sessionChanges = 0

StoreOps == {"entitlements.select", "profiles.select", "profiles.insert"}

\* C1: on a page whose data-protected is anything but absent, without
\* ?debug and with no session, the dispatcher run ends in a redirect to the
\* login page, and no entitlement query or profile read/insert was issued
\* before that redirect.
C1_NoSessionRedirectsToLogin ==
  (page.attr # NoAttr /\ ~page.debug /\ session = NoSession /\ Nominal
     /\ disp.pc = "done")
    => /\ disp.redirect \in {LoginPage, GateLogin}
       /\ \E i \in 1..Len(nav) :
            /\ nav[i].by = "disp"
            /\ \A r \in nav[i].after : r.op \notin StoreOps

\* C2: on a course page with a resource key, a session for U and no
\* ?debug, the run redirects to /no-access when the pair (U, key) is not in
\* the entitlement set, whatever other pairs are, and ends Allowed with no
\* redirect at all when it is.
C2_EntitlementDecides ==
  (page.attr = "course" /\ getCourseSlugFromDom # NoSlug /\ ~page.debug
     /\ session \in Users /\ Nominal /\ disp.pc = "done")
    => IF <<session, getCourseSlugFromDom>> \in entitlements
         THEN disp.redirect = "none" /\ nav = <<>>
       ELSE /\ disp.redirect = NoAccess
            /\ Len(nav) = 1 /\ nav[1].by = "disp" /\ nav[1].to = NoAccess

C2_Witness ==
  /\ page.attr = "course" /\ page.courseSlug = "course-101" /\ ~page.debug
  /\ session = "U1" /\ Nominal /\ disp.pc = "done"
  /\ entitlements = {<<"U2", "course-101">>, <<"U1", "course-202">>}
  /\ disp.redirect = NoAccess

\* C3: whenever the entitlement query of a course page fails, by an error
\* value or by a rejected call, the run ends in a redirect to the denial
\* destination.
C3_FailsClosed ==
  (page.attr = "course" /\ disp.pc = "done"
     /\ disp.ent \in {"error", "thrown"})
    => disp.redirect = NoAccess /\ \E i \in 1..Len(nav) : nav[i].to = NoAccess

\* C4: concurrent ensureProfileExists calls for one identity, with no
\* failing request and no session change, leave exactly one profile row
\* for it, and every call that has returned reports success with that row.
C4_ExactlyOneProfile ==
  \A c \in Tabs :
    (Nominal /\ calls[c].pc = "returned")
      => /\ Len(RowsOf(calls[c].userId)) = 1
         /\ calls[c].success
         /\ calls[c].profile = RowsOf(calls[c].userId)[1]

C4_Witness ==
  /\ Nominal
  /\ \E c1, c2 \in Tabs :
       /\ c1 # c2
       /\ calls[c1].pc = "returned" /\ calls[c2].pc = "returned"
       /\ calls[c1].userId = calls[c2].userId
       /\ calls[c1].rowAtStart = NoRow /\ calls[c2].rowAtStart = NoRow
       /\ calls[c1].wrote
       /\ calls[c2].steps = <<"read", "insert", "reread">>

\* C5: with ?debug set on a page of any protection kind, no page-load
\* initializer issues a redirect, in any session and entitlement state.
C5_DebugNeverRedirects ==
  (page.debug /\ page.attr # NoAttr /\ Nominal) => nav = <<>>

\* C6: across all tasks of one page load, window.location.href is assigned
\* at most once.
C6_OneTerminalAction == Nominal => Len(nav) <= 1

\* C7: a data-protected value that is not a known kind is handled like
\* basic: a session check is made, no session redirects to the login page,
\* a session ends Allowed.
C7_UnknownKindIsBasic ==
  (page.attr \in {"", "members"} /\ ~page.debug /\ Nominal
     /\ disp.pc = "done")
    => /\ \E r \in issued : r.by = "disp" /\ r.op = "auth.getSession"
       /\ IF session = NoSession
            THEN /\ disp.redirect = LoginPage
                 /\ \E i \in 1..Len(nav) :
                      nav[i].by = "disp" /\ nav[i].to = LoginPage
          ELSE disp.redirect = "none" /\ nav = <<>>

C7_Witness ==
  /\ page.attr = "members" /\ ~page.debug /\ Nominal /\ disp.pc = "done"
  /\ session = NoSession /\ disp.redirect = LoginPage

\* C8: in a dispatcher run on a course page the entitlement query is
\* issued only after a session read of that run returned a session, with
\* that session's id, and access is granted only after the query returned
\* a row.
C8_SessionBeforeEntitlement ==
  page.attr = "course" =>
    /\ \A r \in issued :
         (r.by = "disp" /\ r.op = "entitlements.select")
           => /\ disp.sub \in Users /\ r.key = disp.sub
              /\ \E q \in issued : q.by = "disp" /\ q.op = "auth.getSession"
    /\ disp.pc = "gateQuery" => disp.sub \in Users
    /\ (disp.pc = "done" /\ getCourseSlugFromDom # NoSlug /\ ~page.debug
          /\ disp.redirect = "none" /\ ~disp.threw)
         => /\ disp.ent = "granted"
            /\ \E r \in issued : r.by = "disp" /\ r.op = "entitlements.select"

C8_Witness ==
  /\ page.attr = "course" /\ disp.pc = "done" /\ disp.ent = "granted"
  /\ disp.sub = "U1"

\* C9: whenever ensureProfileExists returns success, the returned profile
\* is a profile row whose id is the caller's userId, also after a unique
\* violation whose re-read fails or finds nothing.
C9_SuccessHasProfile ==
  \A c \in Tabs :
    (calls[c].pc = "returned" /\ calls[c].success /\ sessionChanges = 0)
      => /\ calls[c].profile \notin {NoRow, Unset}
         /\ calls[c].profile.id = calls[c].userId

C11_EnsuresGivenEmail ==
  \A c \in Tabs :
    (Nominal /\ calls[c].pc = "returned")
      => /\ Len(RowsOf(calls[c].userId)) = 1
         /\ RowsOf(calls[c].userId)[1].email = calls[c].email

\* C12: when the first read fails (any error but the no-rows code), or the
\* insert fails with any error but the unique violation, the call has
\* returned failure with that error, after that one request and no other,
\* and has written nothing.
C12_FailureIsReturned ==
  \A c \in Tabs :
    /\ calls[c].fetchError \notin {"unset", "none", "PGRST116"}
         => /\ calls[c].pc = "returned" /\ ~calls[c].success
            /\ calls[c].error = calls[c].fetchError
            /\ calls[c].steps = <<"read">> /\ ~calls[c].wrote
    /\ calls[c].insertError \notin {"unset", "none", "23505"}
         => /\ calls[c].pc = "returned" /\ ~calls[c].success
            /\ calls[c].error = calls[c].insertError
            /\ calls[c].steps = <<"read", "insert">> /\ ~calls[c].wrote

C12_Witness ==
  \E c1, c2 \in Tabs :
    /\ calls[c1].pc = "returned" /\ calls[c1].insertError = "42501"
    /\ calls[c2].pc = "returned" /\ calls[c2].fetchError = "08006"
    /\ profiles = <<>>

\* Rows of one (identity, resource key) pair.
PairRows(u, slug) == {r \in progress : r.user_id = u /\ r.lesson_slug = slug}

\* The rows of m's pair in a table without timestamps.
PairOf(m, stripped) ==
  {r \in stripped : r.user_id = marks[m].userId
                    /\ r.lesson_slug = marks[m].lessonSlug}

\* C13: after the same lesson was marked complete twice for the same
\* identity there is exactly one row for the pair, with completed = true,
\* the same row the first call left, and the second of the two calls left
\* the table, timestamps apart, as it found it.
C13_MarkTwiceIsMarkOnce ==
  \A m1, m2 \in Markers :
    (m1 # m2 /\ marks[m1].saved /\ marks[m2].saved
       /\ marks[m1].userId = marks[m2].userId
       /\ marks[m1].lessonSlug = marks[m2].lessonSlug)
      => /\ Cardinality(PairRows(marks[m1].userId, marks[m1].lessonSlug)) = 1
         /\ \A r \in PairRows(marks[m1].userId, marks[m1].lessonSlug) :
              r.completed
         /\ PairOf(m1, Strip(progress)) = PairOf(m1, marks[m1].after)
         /\ PairOf(m1, marks[m1].after) = PairOf(m2, marks[m2].after)
         /\ \/ marks[m1].after = marks[m1].before
            \/ marks[m2].after = marks[m2].before

C13_Witness ==
  /\ marks[1].saved /\ marks[2].saved
  /\ marks[1].userId = "U1" /\ marks[2].userId = "U1"
  /\ marks[1].lessonSlug = "lesson-2" /\ marks[2].lessonSlug = "lesson-2"
  /\ marks[1].nowIso # marks[2].nowIso
  /\ Cardinality(progress) = 1

\* A table as (pair, completed) facts, and the join of two such sets: a pair
\* is completed in the join when it is completed in either.
PairFacts(table) ==
  {[user_id |-> r.user_id, lesson_slug |-> r.lesson_slug,
    completed |-> r.completed] : r \in table}
JoinFacts(a, b) ==
  {x \in a \cup b :
     x.completed \/ ~\E y \in a \cup b :
                       /\ y.user_id = x.user_id
                       /\ y.lesson_slug = x.lesson_slug /\ y.completed}

RECURSIVE JoinOver(_)
JoinOver(ms) ==
  IF ms = {} THEN {}
  ELSE LET m == CHOOSE x \in ms : TRUE
       IN  JoinFacts(PairFacts(marks[m].after), JoinOver(ms \ {m}))
SavedMarks == {m \in Markers : marks[m].saved}

\* C14: under every interleaving of the mark-complete calls of several tabs
\* the table holds at most one row per (identity, resource key) pair, and
\* every pair a call has saved has its row with completed = true; the
\* table, timestamps and row ids apart, is the join of what the calls left,
\* which does not depend on their order.
C14_OrderIndependent ==
  /\ \A r1, r2 \in progress :
       (r1.user_id = r2.user_id /\ r1.lesson_slug = r2.lesson_slug)
         => r1 = r2
  /\ \A m \in Markers :
       marks[m].saved =>
         \E r \in PairRows(marks[m].userId, marks[m].lessonSlug) :
           r.completed
  /\ SavedMarks # {} => PairFacts(progress) = JoinOver(SavedMarks)

C14_Witness ==
  /\ marks[1].pc = "done" /\ marks[2].pc = "done"
  /\ marks[1].saved /\ marks[2].saved
  /\ marks[1].lessonSlug # marks[2].lessonSlug
  /\ marks[1].nowIso < marks[2].nowIso
  /\ \E r1, r2 \in progress :
       /\ r1.lesson_slug = marks[1].lessonSlug
       /\ r2.lesson_slug = marks[2].lessonSlug
       /\ r2.id < r1.id

\* C15: no step sets completed back to false or removes a record: a row
\* that has completed = true is still there, for the same pair and with
\* completed = true, after every step.
C15_CompletedStays ==
  [][\A r \in progress :
       r.completed =>
         \E r2 \in progress' :
           /\ r2.id = r.id /\ r2.user_id = r.user_id
           /\ r2.lesson_slug = r.lesson_slug /\ r2.completed]_vars

C15_Witness ==
  /\ \E m \in Markers :
       /\ marks[m].saved /\ marks[m].lessonSlug = "lesson-1"
       /\ marks[m].userId = "U1"
  /\ \E r \in progress : r.id = 1 /\ r.completed /\ r.updated_at > 0
  /\ lesson.shown

\* C16: a step of checkLessonProgress changes no table, issues no redirect
\* and leaves the dispatcher, its outcome included, as it was.
C16_CheckIsPureRead ==
  [][(lesson.pc \in {"session", "read"} /\ lesson' # lesson
        /\ lesson'.pc # "unloaded")
       => /\ progress' = progress /\ profiles' = profiles
          /\ entitlements' = entitlements
          /\ nav' = nav /\ disp' = disp]_vars

C16_Witness ==
  /\ page.attr = "course" /\ Nominal
  /\ lesson.pc = "done" /\ lesson.shown
  /\ disp.pc = "done" /\ disp.redirect = NoAccess

C19_NoStaleIdentity ==
  \A r \in issued :
    (r.by = "form" /\ r.op \in {"profiles.select", "profiles.insert"})
      => r.key = r.auth

\* C20 as stated: on a page without data-protected no current-session
\* query is made during the page load.
C20_NoSessionLookup ==
  page.attr = NoAttr => \A r \in issued : r.op # "auth.getSession"

\* C20: on a page without data-protected the dispatcher ends Allowed at
\* once and issues no request at all; the session queries of that page load
\* are those of checkLessonProgress on a page with #lessonSlug and of
\* initProfilesDirectory on /people.
C20_DispatcherNoSessionLookup ==
  (page.attr = NoAttr /\ disp.pc # "idle")
    => /\ disp.pc = "done" /\ disp.redirect = "none" /\ nav = <<>>
       /\ \A r \in issued :
            /\ r.by \notin {"disp", "form"}
            /\ r.by = "lesson" => page.lessonSlug # NoSlug
            /\ r.by = "dir" => page.people

C20_Witness ==
  /\ page.attr = NoAttr /\ page.lessonSlug # NoSlug /\ ~page.people
  /\ disp.pc = "done" /\ lesson.pc = "done"
  /\ issued = {[by |-> "lesson", op |-> "auth.getSession", key |-> "-",
                auth |-> NoSession]}

\* C17: the update the directory's save handler issues names the identity
\* of the session current when it is issued.
C17_SaveNamesCurrentIdentity ==
  \A r \in issued : r.by = "save" => r.key = r.auth

AccountReads ==
  {"profiles.select", "entitlements.select", "lesson_progress.select"}

\* C21: on an account page the account-data population (its session read,
\* then the profile-name, entitlement-list and progress-list reads) is under
\* way or has issued a read only in a run in which requireAuthOrRedirect
\* returned a session, and never in a run that redirected.
C21_PopulationAfterSession ==
  page.attr = "account" =>
    ((\/ disp.pc \in {"acctSession", "acctProfile", "acctEnts",
                      "progSession", "progRead"}
      \/ \E r \in issued : r.by = "disp" /\ r.op \in AccountReads)
       => /\ disp.session \in Users
          /\ disp.redirect = "none"
          /\ \A i \in 1..Len(nav) : nav[i].by # "disp")

C21_Witness ==
  /\ page.attr = "account" /\ page.fullNameEl /\ page.entsEl /\ page.progEl
  /\ disp.pc = "done" /\ disp.session = "U1"
  /\ \A op \in AccountReads : \E r \in issued : r.by = "disp" /\ r.op = op

\* C22: on every profile page with a session and without ?debug, whatever
\* else the page holds, the dispatcher run has called ensureProfileExists
\* for the session's identity and the call has returned when the run ends.
C22_ProfilePageBootstraps ==
  (page.attr = "profile" /\ ~page.debug /\ session \in Users /\ Nominal
     /\ disp.pc = "done")
    => /\ calls[FormCall].pc = "returned"
       /\ calls[FormCall].userId = session

\* C23: every redirect issued on the page load of a visitor without a
\* session targets the configured login page, CONFIG.redirects.loginPage,
\* also when the configuration sets it to something other than /login.
C23_RedirectsToConfiguredLogin ==
  \A i \in 1..Len(nav) : nav[i].to = config.loginPage

\* C24: on a page with no data-protected element no redirect is issued, in
\* any session state and whatever other elements or path the page has.
C24_UndeclaredNeverRedirects ==
  page.attr = NoAttr => nav = <<>> /\ disp.redirect = "none"
                         /\ dir.redirect = "none"

C24_Witness ==
  /\ page.attr = NoAttr /\ page.people /\ page.profilesList
  /\ page.profileForm /\ page.lessonSlug # NoSlug
  /\ session = NoSession /\ sessionChanges = 0
  /\ disp.pc = "done" /\ lesson.pc = "done" /\ dir.pc = "done"
  /\ dir.listed

\* C25: the dispatcher's bypass decision on a page that declares protection
\* is the value of the ?debug flag and nothing else, in every session
\* state, with every store content and for every protection kind; a run
\* that bypassed ended at once with no request and no redirect.
C25_BypassIsDebugFlag ==
  (page.attr # NoAttr /\ disp.pc # "idle")
    => /\ disp.bypass <=> page.debug
       /\ disp.bypass
            => /\ disp.pc = "done" /\ disp.redirect = "none"
               /\ \A r \in issued : r.by \notin {"disp", "form"}

C25_Witness ==
  /\ page.attr = "course" /\ getCourseSlugFromDom # NoSlug /\ page.debug
  /\ session = NoSession /\ entitlements = {}
  /\ disp.bypass /\ disp.pc = "done"

\* C26: on a course page whose #courseSlug is missing or empty the run ends
\* Allowed at once: no redirect, and no request of the dispatcher at all,
\* the entitlement query included.
C26_NoKeyPassesThrough ==
  (page.attr = "course" /\ page.courseSlug \in {NoSlug, ""}
     /\ disp.pc # "idle")
    => /\ disp.pc = "done" /\ disp.redirect = "none" /\ ~disp.threw
       /\ \A i \in 1..Len(nav) : nav[i].by # "disp"
       /\ \A r \in issued : r.by # "disp"

C26_Witness ==
  /\ page.attr = "course" /\ page.courseSlug = "" /\ ~page.debug
  /\ session = "U1" /\ entitlements = {}
  /\ disp.pc = "done" /\ nav = <<>>

C29_TerminatesInThree ==
  /\ [](\A c \in Tabs :
          /\ calls[c].steps \in {<<>>, <<"read">>, <<"read", "insert">>,
                                 <<"read", "insert", "reread">>}
          /\ calls[c].pc \in {"reread"} \/ Len(calls[c].steps) = 3
               => calls[c].insertError = "23505")
  /\ \A c \in Tabs : (calls[c].pc # "idle") ~> (calls[c].pc = "returned")

C29_Witness ==
  \E c \in Tabs :
    /\ calls[c].pc = "returned"
    /\ calls[c].steps = <<"read", "insert", "reread">>
    /\ ~calls[c].success /\ calls[c].error = "thrown"

\* C30: when ensureProfileExists reports failure to initializeProfileForm,
\* the dispatcher run ends with the error message shown, no submit handler
\* attached, nothing thrown and no redirect of its own.
C30_BootstrapFailureIsShown ==
  (calls[FormCall].pc = "returned" /\ ~calls[FormCall].success
     /\ disp.pc = "done")
    => /\ disp.feedback /\ ~disp.handler /\ ~disp.threw
       /\ disp.redirect = "none"
       /\ \A i \in 1..Len(nav) : nav[i].by # "disp"

C30_Witness ==
  /\ page.attr = "account" /\ page.profileForm
  /\ calls[FormCall].pc = "returned" /\ calls[FormCall].error = "42501"
  /\ disp.pc = "done" /\ disp.feedback /\ nav = <<>>

\* C31: a submission of the profile form reads the session again. When that
\* read finds no session, the submission issues no profile update and
\* redirects to the login page. When it finds one, the submission issues
\* exactly one update, keyed on the id of the session it found, whatever
\* identity the page load had seen.
C31_SubmitReverifiesSession ==
  /\ [](LET f == forms["profile"]
        IN  /\ f.seen = NoSession =>
                 /\ f.pc = "done" /\ f.updates = 0
                 /\ f.redirect = LoginPage
                 /\ \E i \in 1..Len(nav) :
                      nav[i].by = "submit" /\ nav[i].to = LoginPage
            /\ f.seen \in Users =>
                 /\ f.key = f.seen
                 /\ f.redirect = "none"
                 /\ f.pc = "update" => f.updates = 0
                 /\ f.pc = "done" => f.updates = 1)
  /\ [][\A i \in issued' \ issued :
          (i.by = "submit" /\ i.op = "profiles.update")
            => /\ forms["profile"].pc = "update"
               /\ forms["profile"].seen \in Users
               /\ i.key = forms["profile"].seen]_vars

\* C31 witness: a submission updated under an identity that differs from
\* the one the page load saw, and the row of that identity was edited.
C31_Witness ==
  LET f == forms["profile"]
  IN  /\ f.pc = "done" /\ f.updates = 1 /\ f.error = "none"
      /\ f.seen \in Users /\ f.atLoad \in Users /\ f.seen # f.atLoad
      /\ \E i \in 1..Len(profiles) :
           profiles[i].id = f.seen /\ profiles[i].full_name = "edited"

\* C32: markLessonComplete issues an upsert only when it found a session
\* and the page gave a lesson key; without either the progress table stays
\* as it was, and every row a call writes carries the user id of the
\* session, which is the id the call read.
C32_MarkNeedsSessionAndKey ==
  /\ [](\A m \in Markers :
          (marks[m].pc = "upsert" \/ marks[m].error # "unset")
            => /\ marks[m].userId \in Users
               /\ marks[m].lessonSlug \in TabLessonSlugs)
  /\ [][(progress' # progress
          \/ \E i \in issued' \ issued : i.op = "lesson_progress.upsert")
         => \E m \in Markers :
              /\ marks[m].pc = "upsert" /\ marks'[m].pc # "upsert"
              /\ marks[m].userId \in Users
              /\ marks[m].lessonSlug \in TabLessonSlugs
              /\ \A r \in progress' \ progress :
                   /\ r.user_id = marks[m].userId
                   /\ r.user_id = session
                   /\ r.lesson_slug = marks[m].lessonSlug]_vars

\* C32 witness: one call ended without an upsert because the lesson key
\* was missing, one because there was no session, and nothing was written.
C32_Witness ==
  /\ \E m \in Markers :
       /\ marks[m].pc = "done" /\ marks[m].userId \in Users
       /\ marks[m].lessonSlug = NoSlug /\ marks[m].error = "unset"
  /\ \E m \in Markers :
       /\ marks[m].pc = "done" /\ marks[m].userId = "unset"
       /\ marks[m].lessonSlug \in TabLessonSlugs
  /\ \A i \in issued : i.op # "lesson_progress.upsert"

C34_SignupBootstrapsThenRedirects ==
  LET f == forms["signup"]
      c == calls[SignupCall]
      redirected == \E i \in 1..Len(nav) : nav[i].by = "signup"
  IN  /\ c.pc # "idle"
           => /\ f.error = "none" /\ f.gotUser /\ f.gotSession
              /\ c.userId = f.user /\ c.email = Email(f.user)
      /\ redirected
           => /\ c.pc = "returned"
              /\ \A i \in 1..Len(nav) :
                   nav[i].by = "signup" => nav[i].to = config.afterSignup
      /\ (f.pc = "done" /\ f.gotUser /\ f.gotSession) => redirected
      /\ (f.gotUser /\ ~f.gotSession) => c.pc = "idle" /\ ~redirected

\* C34 witness: the bootstrap failed and the handler redirected all the
\* same.
C34_Witness ==
  /\ calls[SignupCall].pc = "returned" /\ ~calls[SignupCall].success
  /\ forms["signup"].pc = "done"
  /\ \E i \in 1..Len(nav) : nav[i].by = "signup"

\* C35: the login handler redirects exactly when signInWithPassword
\* returned without error, and the logout handler exactly when signOut
\* did; after an error, or with an empty email or password, there is no
\* redirect.
C35_RedirectOnlyOnSuccess ==
  /\ \A h \in {"login", "logout"} :
       (\E i \in 1..Len(nav) : nav[i].by = h)
         <=> (forms[h].pc = "done" /\ forms[h].error = "none")
  /\ \A i \in 1..Len(nav) :
       /\ nav[i].by = "login" => nav[i].to = config.afterLogin
       /\ nav[i].by = "logout" => nav[i].to = config.afterLogout

\* C35 witness: the provider refused the credentials and the page stayed.
C35_Witness ==
  /\ forms["login"].pc = "done" /\ forms["login"].error = "refused"
  /\ nav = <<>>

\* C36: a step in which the listener runs and no handler of the page does
\* changes neither the navigation, nor the requests issued, nor any task,
\* nor the store; so a page the dispatcher allowed stays after a sign-out.
C36_ListenerTakesNoAction ==
  [][(Len(authEvents') > Len(authEvents) /\ forms' = forms)
       => /\ nav' = nav /\ issued' = issued
          /\ disp' = disp /\ lesson' = lesson /\ dir' = dir
          /\ calls' = calls /\ marks' = marks
          /\ profiles' = profiles /\ entitlements' = entitlements
          /\ progress' = progress]_vars

\* C36 witness: the dispatcher allowed a protected page, the user was then
\* signed out, the listener logged it, and the page is still there.
C36_Witness ==
  /\ page.attr # NoAttr /\ disp.pc = "done" /\ disp.redirect = "none"
  /\ disp.session \in Users
  /\ session = NoSession /\ sessionChanges = 1
  /\ authEvents = <<"SIGNED_OUT">>
  /\ nav = <<>>

WriteOps == {"profiles.insert", "profiles.update", "lesson_progress.upsert"}

\* C37: once a redirect has been issued, no request issued afterwards is a
\* profile insert, a profile update or a progress upsert, and a dispatcher
\* run that redirected takes no further step.
C37_ReadOnlyAfterRedirect ==
  [][/\ nav # <<>> => \A i \in issued' \ issued : i.op \notin WriteOps
     /\ disp.redirect # "none"
          => disp' = disp \/ disp' = [disp EXCEPT !.pc = "unloaded"]]_vars
====
